---- MODULE Spec2Model ----
(***************************************************************************)
(* The store engine of src/src/createStore.js as a state machine.          *)
(*                                                                         *)
(* The engine is synchronous: one call stack.  A dispatch call is split at *)
(* the points where it hands control to user code (the reducer, then each  *)
(* listener); user code may call back into the store, so the call stack of *)
(* dispatch calls in flight is part of the state.  Listener arrays are     *)
(* JavaScript arrays compared by reference, so they live in a heap         *)
(* (arrays) and currentListeners / nextListeners / a dispatch's local      *)
(* `listeners` are references into it.                                     *)
(***************************************************************************)
EXTENDS Integers, Sequences, FiniteSets, TLC

\* ---------------------------------------------------------------- bounds
MaxDispatches == 2      \* dispatch calls that pass the guards, per run
MaxSubs == 2            \* successful subscribe calls, per run

\* ---------------------------------------------------------------- values
Undefined == -1         \* JavaScript undefined, for state values

NotCallable == 0        \* a subscribe argument that is not a function
\* listener callbacks: never more distinct ones than subscriptions
Listeners == 1..MaxSubs

Reducers == {"count", "calc"}
NotAFunction == "notAFunction"

INIT == "@@redux/INIT"
REPLACE == "@@redux/REPLACE"
ActionTypes == {INIT, REPLACE}

UserTypes == {"inc", "dbl", "boom"}

PlainAction(t) == [kind |-> "plain", type |-> t]
NoAction == [kind |-> "none", type |-> "undefined"]

\* arguments a caller may hand to dispatch: plain records with a type,
\* a plain record without one, and values that are not plain records
ValidActions == {PlainAction(t) : t \in UserTypes}
MalformedActions ==
    {PlainAction("undefined")} \cup
    {[kind |-> k, type |-> "undefined"] :
        k \in {"string", "null", "function"}}
DispatchArgs == ValidActions \cup MalformedActions

isPlainObject(a) == a.kind = "plain"

\* the transition functions the engine is built with: count is the
\* reducer of the specification's scenario, calc does not commute
Raises(r, s, a) == a.type = "boom"

ReducerResult(r, s, a) ==
    LET s0 == IF s = Undefined THEN (IF r = "count" THEN 0 ELSE 1) ELSE s
    IN  IF a.type = "inc" THEN s0 + 1
        ELSE IF a.type = "dbl" /\ r = "calc" THEN 2 * s0
        ELSE s0

PreloadedStates == {Undefined, 2}

\* the second and third argument of createStore, as typeof sees them
UndefinedArg == [type |-> "undefined", value |-> Undefined, fn |-> "none"]
ValueArg(v) == [type |-> "number", value |-> v, fn |-> "none"]
FunctionArg(f) == [type |-> "function", value |-> Undefined, fn |-> f]
typeof(x) == x.type

\* the function held by applyMiddleware's `let dispatch`: the one that
\* throws, or the handlers of the listed middlewares around store.dispatch
\* (outermost first; none of them: store.dispatch itself)
Thrower == [throws |-> TRUE, stages |-> <<>>]
Composed(stages) == [throws |-> FALSE, stages |-> stages]

\* ---------------------------------------------------------------- state
VARIABLES
    currentReducer,     \* let currentReducer
    currentState,       \* let currentState
    currentListeners,   \* let currentListeners  (reference into arrays)
    nextListeners,      \* let nextListeners     (reference into arrays)
    isDispatching,      \* let isDispatching
    arrays,             \* the heap of listener arrays
    subs,               \* the closures made by subscribe: listener, isSubscribed
    stack,              \* dispatch calls in flight, innermost last
    result,             \* how the most recent completed call ended
    nd,                 \* dispatch calls that passed the guards so far
    applied,            \* history: the transitions that completed
    state0,             \* history: the state after construction
    args,               \* the arguments createStore was called with
    pc,                 \* how far construction has come ("ready": engine returned)
    chain,              \* applyMiddleware: let chain
    dispatch,           \* applyMiddleware: let dispatch
    calls,              \* middleware handlers in flight, innermost last
    trace,              \* history: who handled the actions of the current call
    ncalls              \* calls of the enhanced dispatch so far

\* the variables of construction and of applyMiddleware
evars == <<args, pc, chain, dispatch, calls, trace, ncalls>>

vars == <<currentReducer, currentState, currentListeners, nextListeners,
          isDispatching, arrays, subs, stack, result, nd, applied, state0,
          args, pc, chain, dispatch, calls, trace, ncalls>>

\* dispatch calls nest no deeper than there are dispatch calls, and each
\* call in flight holds one array besides the current and the next one
NumArrays == MaxDispatches + 2
ArrayIds == 1..NumArrays

NoResult == [op |-> "none", status |-> "ok", value |-> Undefined, act |-> NoAction]
Returned(op, v, a) == [op |-> op, status |-> "ok", value |-> v, act |-> a]
Raised(op, err, a) == [op |-> op, status |-> err, value |-> Undefined, act |-> a]

Errors == {"ValidationError", "ReentrancyError", "ConfigError",
           "TransitionError", "ListenerError", "AssemblyError"}

Top == stack[Len(stack)]
Pop(stk) == SubSeq(stk, 1, Len(stk) - 1)
SetTop(stk, f) == [stk EXCEPT ![Len(stk)] = f]

\* who is running: the caller outside any dispatch ("top"), a reducer
\* ("reduce"), a listener callback ("listener"), or dispatch's own loop
\* the dispatch call in flight that user code is running under, 0 if none
Innermost == IF stack = <<>> THEN 0 ELSE Top.id

Context == IF stack = <<>> THEN "top" ELSE Top.pc
UserCode == Context \in {"top", "reduce", "listener"}

\* ---------------------------------------------------------------- arrays
Referenced(cur, nxt, stk) ==
    ({cur, nxt} \cup {stk[k].listeners : k \in DOMAIN stk}) \ {0}

\* Array.prototype.slice allocates a new array: the least free reference
FreshId(cur, nxt, stk) ==
    CHOOSE n \in ArrayIds :
        /\ n \notin Referenced(cur, nxt, stk)
        /\ \A m \in ArrayIds : m \notin Referenced(cur, nxt, stk) => n <= m

\* arrays nothing refers to any more are garbage
Collect(arr, cur, nxt, stk) ==
    [n \in ArrayIds |-> IF n \in Referenced(cur, nxt, stk) THEN arr[n] ELSE <<>>]

\* mutant: lastIndexOf
IndexOf_Last(seq, fn) ==
    IF \E k \in DOMAIN seq : seq[k].fn = fn
    THEN (CHOOSE k \in DOMAIN seq :
             /\ seq[k].fn = fn
             /\ \A j \in DOMAIN seq : seq[j].fn = fn => k >= j) - 1
    ELSE -1

\* Array.prototype.indexOf on the callbacks, 0-based, -1 when absent
IndexOf(seq, fn) ==
    IF \E k \in DOMAIN seq : seq[k].fn = fn
    THEN (CHOOSE k \in DOMAIN seq :
             /\ seq[k].fn = fn
             /\ \A j \in DOMAIN seq : seq[j].fn = fn => k <= j) - 1
    ELSE -1

\* mutant: the element is not removed
Splice1_Noop(seq, index) == seq

\* Array.prototype.splice(index, 1): a negative index counts from the end
Splice1(seq, index) ==
    LET start == IF index < 0
                 THEN (IF Len(seq) + index < 0 THEN 0 ELSE Len(seq) + index)
                 ELSE (IF index > Len(seq) THEN Len(seq) ELSE index)
    IN  IF start >= Len(seq) THEN seq
        ELSE SubSeq(seq, 1, start) \o SubSeq(seq, start + 2, Len(seq))

\* mutant: mutate the live list in place, without the copy
ensureCanMutateNextListeners_NoCopy(arr, cur, nxt, stk) ==
    [next |-> nxt, arrays |-> arr]

ensureCanMutateNextListeners(arr, cur, nxt, stk) ==
    IF nxt = cur
    THEN LET n == FreshId(cur, nxt, stk)
         IN  [next |-> n, arrays |-> [arr EXCEPT ![n] = arr[cur]]]
    ELSE [next |-> nxt, arrays |-> arr]

\* mutant: unshift instead of push
push_Front(seq, e) == <<e>> \o seq

\* nextListeners.push(listener)
push(seq, e) == Append(seq, e)

\* mutants: a guard that never rejects
subscribeRejects_Never == FALSE
unsubscribeRejects_Never == FALSE
dispatchRejects_Never == FALSE
\* mutant: the flag is held until dispatch returns
dispatchRejects_InFlight == stack # <<>>

\* the guards `if (isDispatching) throw` of the four operations
getStateRejects == isDispatching
subscribeRejects == isDispatching
unsubscribeRejects == isDispatching
dispatchRejects == isDispatching

\* mutant: the check of action.type is missing
typeUndefined_Never(a) == FALSE

\* typeof action.type === 'undefined'
typeUndefined(a) == a.type = "undefined"

\* mutant: the reducer is given the state of construction, not the current one
nextState_FromInitial(f) == ReducerResult(f.reducer, state0, f.action)

\* currentReducer(currentState, action), for the call a frame stands for
nextState(f) == ReducerResult(f.reducer, f.pre, f.action)

\* mutant: the flag is never cleared
finally_Never(raised) == TRUE

\* mutant: the flag is cleared after the call instead of in a finally block
finally_OnlyOnReturn(raised) == raised

\* finally { isDispatching = false }: the flag when control leaves the try
\* block, after a return (raised = FALSE) and after a raise (raised = TRUE)
finally(raised) == FALSE

\* mutant: the loop runs over the previous snapshot
snapshot_Stale == currentListeners

\* const listeners = (currentListeners = nextListeners)
snapshot == nextListeners

\* mutant: the loop reads the live list instead of its snapshot
iterated_Live(f) == arrays[nextListeners]

\* the array the loop of a dispatch call reads: its local `listeners`
iterated(f) == arrays[f.listeners]

\* mutant: dispatch catches the reducer's error and goes on to notify
propagate_Caught(stk) ==
    SetTop(stk, [stk[Len(stk)] EXCEPT !.pc = "notify", !.listeners = nextListeners])

\* try { ... } finally { ... } has no catch clause: an error raised in the
\* try block leaves dispatch, whose call is removed from the call stack
propagate(stk) == Pop(stk)

\* mutant: the loop swallows the error of a listener and goes on
uncaught_Swallowed(stk) ==
    SetTop(stk, [stk[Len(stk)] EXCEPT !.pc = "notify", !.i = @ + 1])

\* listener() is called outside any try block: an error it raises leaves
\* the loop and dispatch, whose call is removed from the call stack
uncaught(stk) == Pop(stk)

\* ---------------------------------------------------------------- Init
\* createStore(reducer, preloadedState): the variables are initialised and
\* dispatch({ type: ActionTypes.INIT }) has run, with no listener yet
Created(rs, ps) ==
    \E r \in rs, p \in ps :
        /\ currentReducer = r
        /\ currentState = ReducerResult(r, p, PlainAction(INIT))
        /\ state0 = ReducerResult(r, p, PlainAction(INIT))
        /\ currentListeners = 1
        /\ nextListeners = 1
        /\ isDispatching = FALSE
        /\ arrays = [n \in ArrayIds |-> <<>>]
        /\ subs = <<>>
        /\ stack = <<>>
        /\ result = NoResult
        /\ nd = 0
        /\ applied = <<>>
        /\ args = [reducer |-> r,
                   preloadedState |-> IF p = Undefined THEN UndefinedArg
                                      ELSE ValueArg(p),
                   enhancer |-> UndefinedArg,
                   middlewares |-> <<>>]
        /\ pc = "ready"
        /\ chain = <<>>
        /\ dispatch = Composed(<<>>)
        /\ calls = <<>>
        /\ trace = <<>>
        /\ ncalls = 0

\* an engine built with any of the reducers, with or without a preloaded state
Init == Created(Reducers, PreloadedStates)

\* createStore(count): the engine of the specification's scenario
InitCount == Created({"count"}, {Undefined})

\* ---------------------------------------------------------------- getState
GetState ==
    /\ UserCode
    /\ result' = IF getStateRejects
                 THEN Raised("getState", "ReentrancyError", NoAction)
                 ELSE Returned("getState", currentState, NoAction)
    /\ UNCHANGED <<currentReducer, currentState, currentListeners, nextListeners,
                   isDispatching, arrays, subs, stack, nd, applied, state0>>
    /\ UNCHANGED evars

\* ---------------------------------------------------------------- subscribe
\* subscribe(listener), as long as fewer than `most` subscriptions were made
subscribeUpTo(l, most) ==
    /\ UserCode
    /\ IF l = NotCallable
       THEN /\ result' = Raised("subscribe", "ValidationError", NoAction)
            /\ UNCHANGED <<nextListeners, arrays, subs>>
       ELSE IF subscribeRejects
       THEN /\ result' = Raised("subscribe", "ReentrancyError", NoAction)
            /\ UNCHANGED <<nextListeners, arrays, subs>>
       ELSE /\ Len(subs) < most
            /\ LET e == ensureCanMutateNextListeners(arrays, currentListeners,
                                                     nextListeners, stack)
                   h == Len(subs) + 1
                   pushed == [e.arrays EXCEPT ![e.next] =
                                 push(@, [fn |-> l, reg |-> h])]
               IN  /\ nextListeners' = e.next
                   /\ arrays' = Collect(pushed, currentListeners, e.next, stack)
                   /\ subs' = Append(subs, [fn |-> l, isSubscribed |-> TRUE,
                                            born |-> Innermost, diedIn |-> 0])
                   /\ result' = Returned("subscribe", h, NoAction)
    /\ UNCHANGED <<currentReducer, currentState, currentListeners,
                   isDispatching, stack, nd, applied, state0>>

subscribe(l) == subscribeUpTo(l, MaxSubs)

Subscribe(l) == subscribe(l) /\ UNCHANGED evars

\* ---------------------------------------------------------------- unsubscribe
\* `if (!isSubscribed) return` of the closure made by subscription h
alreadyUnsubscribed_Never(h) == FALSE

alreadyUnsubscribed(h) == ~subs[h].isSubscribed

unsubscribe(h) ==
    /\ UserCode
    /\ h \in DOMAIN subs
    /\ IF alreadyUnsubscribed(h)
       THEN /\ result' = Returned("unsubscribe", h, NoAction)
            /\ UNCHANGED <<nextListeners, arrays, subs>>
       ELSE IF unsubscribeRejects
       THEN /\ result' = Raised("unsubscribe", "ReentrancyError", NoAction)
            /\ UNCHANGED <<nextListeners, arrays, subs>>
       ELSE LET e == ensureCanMutateNextListeners(arrays, currentListeners,
                                                  nextListeners, stack)
                index == IndexOf(e.arrays[e.next], subs[h].fn)
                spliced == [e.arrays EXCEPT ![e.next] = Splice1(@, index)]
            IN  /\ subs' = [subs EXCEPT ![h].isSubscribed = FALSE,
                                        ![h].diedIn = Innermost]
                /\ nextListeners' = e.next
                /\ arrays' = Collect(spliced, currentListeners, e.next, stack)
                /\ result' = Returned("unsubscribe", h, NoAction)
    /\ UNCHANGED <<currentReducer, currentState, currentListeners,
                   isDispatching, stack, nd, applied, state0>>

Unsubscribe(h) == unsubscribe(h) /\ UNCHANGED evars

\* ---------------------------------------------------------------- dispatch
\* the frame of a dispatch call that passed the guards and entered `try`
Frame(via, a) ==
    [id |-> nd + 1, via |-> via, action |-> a, reducer |-> currentReducer',
     pc |-> "reduce", listeners |-> 0, i |-> 0,
     pre |-> currentState, post |-> Undefined, n0 |-> Len(applied),
     snap |-> arrays[nextListeners], called |-> <<>>, seen |-> <<>>]

\* dispatch(action) up to the call of the reducer; `via` is the public
\* operation the caller used (dispatch itself, or replaceReducer)
DispatchEnter(via, a) ==
    IF ~isPlainObject(a)
    THEN /\ result' = Raised(via, "ValidationError", a)
         /\ UNCHANGED <<isDispatching, stack, nd>>
    ELSE IF typeUndefined(a)
    THEN /\ result' = Raised(via, "ValidationError", a)
         /\ UNCHANGED <<isDispatching, stack, nd>>
    ELSE IF dispatchRejects
    THEN /\ result' = Raised(via, "ReentrancyError", NoAction)
         /\ UNCHANGED <<isDispatching, stack, nd>>
    ELSE /\ nd < MaxDispatches
         /\ isDispatching' = TRUE
         /\ stack' = Append(stack, Frame(via, a))
         /\ nd' = nd + 1
         /\ result' = NoResult

dispatchCall(a) ==
    /\ UserCode
    /\ UNCHANGED currentReducer
    /\ DispatchEnter("dispatch", a)
    /\ UNCHANGED <<currentState, currentListeners, nextListeners,
                   arrays, subs, applied, state0>>

Dispatch(a) == dispatchCall(a) /\ UNCHANGED evars

\* mutant: createStore's own calls go to the dispatch of the enhanced engine
scopeDispatch_Engine == dispatch

\* the function the name `dispatch` stands for inside createStore (lines
\* 251 and 307): the one declared there, whatever an enhancer builds
scopeDispatch == Composed(<<>>)

\* dispatch(a) as createStore calls it on behalf of operation `via`
ScopeCall(via, a) ==
    IF scopeDispatch.throws
    THEN /\ result' = Raised(via, "AssemblyError", a)
         /\ UNCHANGED <<isDispatching, stack, nd, calls, trace>>
    ELSE IF scopeDispatch.stages = <<>>
    THEN /\ DispatchEnter(via, a)
         /\ UNCHANGED <<calls, trace>>
    ELSE /\ calls' = Append(calls,
                [mw |-> Head(scopeDispatch.stages),
                 next |-> Tail(scopeDispatch.stages),
                 action |-> a, pc |-> "run", call |-> ncalls])
         /\ trace' = Append(trace,
                [call |-> ncalls, who |-> Head(scopeDispatch.stages),
                 action |-> a, top |-> TRUE,
                 state |-> currentState, n |-> Len(applied)])
         /\ result' = NoResult
         /\ UNCHANGED <<isDispatching, stack, nd>>

\* the reducer returns: finally, then the snapshot of the listeners
ReducerReturns ==
    /\ stack # <<>>
    /\ Top.pc = "reduce"
    /\ ~Raises(Top.reducer, Top.pre, Top.action)
    /\ LET s == nextState(Top)
           f == [Top EXCEPT !.pc = "notify", !.listeners = snapshot,
                            !.i = 0, !.post = s]
       IN  /\ currentState' = s
           /\ isDispatching' = finally(FALSE)
           /\ currentListeners' = snapshot
           /\ stack' = SetTop(stack, f)
           /\ arrays' = Collect(arrays, snapshot, nextListeners, SetTop(stack, f))
           /\ applied' = Append(applied,
                 [id |-> Top.id, reducer |-> Top.reducer, action |-> Top.action,
                  post |-> s])
    /\ result' = NoResult
    /\ UNCHANGED <<currentReducer, nextListeners, subs, nd, state0>>
    /\ UNCHANGED evars

\* the reducer raises (itself, or by not catching the error of a call it
\* made): finally, then the error leaves dispatch
ReducerThrows ==
    /\ stack # <<>>
    /\ Top.pc = "reduce"
    /\ (Raises(Top.reducer, Top.pre, Top.action) \/ result.status \in Errors)
    /\ isDispatching' = finally(TRUE)
    /\ stack' = propagate(stack)
    /\ result' = Raised(Top.via, "TransitionError", NoAction)
    /\ UNCHANGED <<currentReducer, currentState, currentListeners, nextListeners,
                   arrays, subs, nd, applied, state0>>
    /\ UNCHANGED evars

\* for (let i = 0; i < listeners.length; i++) { listeners[i]() }: the call
callListener ==
    /\ stack # <<>>
    /\ Top.pc = "notify"
    /\ Top.i < Len(iterated(Top))
    /\ stack' = SetTop(stack,
          [Top EXCEPT !.pc = "listener",
                      !.called = Append(@, iterated(Top)[Top.i + 1]),
                      !.seen = Append(@, [state |-> currentState,
                                          n |-> Len(applied)])])
    /\ result' = NoResult
    /\ UNCHANGED <<currentReducer, currentState, currentListeners, nextListeners,
                   isDispatching, arrays, subs, nd, applied, state0>>

CallListener == callListener /\ UNCHANGED evars

\* the listener returns: i++
ListenerReturns ==
    /\ stack # <<>>
    /\ Top.pc = "listener"
    /\ stack' = SetTop(stack, [Top EXCEPT !.pc = "notify", !.i = @ + 1])
    /\ result' = NoResult
    /\ UNCHANGED <<currentReducer, currentState, currentListeners, nextListeners,
                   isDispatching, arrays, subs, nd, applied, state0>>
    /\ UNCHANGED evars

\* the listener raises: nothing in dispatch catches it
ListenerThrows ==
    /\ stack # <<>>
    /\ Top.pc = "listener"
    /\ stack' = uncaught(stack)
    /\ arrays' = Collect(arrays, currentListeners, nextListeners, uncaught(stack))
    /\ result' = Raised(Top.via, "ListenerError", NoAction)
    /\ UNCHANGED <<currentReducer, currentState, currentListeners, nextListeners,
                   isDispatching, subs, nd, applied, state0>>
    /\ UNCHANGED evars

\* the loop is over: return action
DispatchReturns ==
    /\ stack # <<>>
    /\ Top.pc = "notify"
    /\ Top.i >= Len(iterated(Top))
    /\ stack' = Pop(stack)
    /\ arrays' = Collect(arrays, currentListeners, nextListeners, Pop(stack))
    /\ result' = Returned(Top.via, Undefined,
                          IF Top.via = "dispatch" THEN Top.action ELSE NoAction)
    /\ UNCHANGED <<currentReducer, currentState, currentListeners, nextListeners,
                   isDispatching, subs, nd, applied, state0>>
    /\ UNCHANGED evars

\* ---------------------------------------------------------------- replaceReducer
\* mutant: the active reducer stays
replaced_Kept(cur, nextReducer) == cur

\* mutant: the reducer is installed only if dispatch will accept the call
replaced_IfAccepted(cur, nextReducer) ==
    IF isDispatching THEN cur ELSE nextReducer

\* currentReducer = nextReducer
replaced(cur, nextReducer) == nextReducer

ReplaceReducer(r) ==
    /\ UserCode
    /\ IF r = NotAFunction
       THEN /\ result' = Raised("replaceReducer", "ConfigError", NoAction)
            /\ UNCHANGED <<currentReducer, isDispatching, stack, nd,
                           calls, trace>>
       ELSE /\ currentReducer' = replaced(currentReducer, r)
            /\ ScopeCall("replaceReducer", PlainAction(REPLACE))
    /\ UNCHANGED <<currentState, currentListeners, nextListeners,
                   arrays, subs, applied, state0>>
    /\ UNCHANGED <<args, pc, chain, dispatch, ncalls>>

\* ---------------------------------------------------------------- createStore
\* the enhancers a caller may pass: applyMiddleware(...args.middlewares), and
\* one that builds an engine of its own without calling the constructor
Enhancers == {"applyMiddleware", "foreign"}

\* mutant: a function in second position stays the initial state
resolved_NoShift(a) == a

\* if (typeof preloadedState === 'function' && typeof enhancer === 'undefined')
\*   { enhancer = preloadedState; preloadedState = undefined }
resolved(a) ==
    IF typeof(a.preloadedState) = "function" /\ typeof(a.enhancer) = "undefined"
    THEN [a EXCEPT !.enhancer = a.preloadedState, !.preloadedState = UndefinedArg]
    ELSE a

\* the engine is being built by applyMiddleware
Enhanced ==
    /\ typeof(resolved(args).enhancer) = "function"
    /\ resolved(args).enhancer.fn = "applyMiddleware"

\* mutant: the engine starts from undefined whatever state it is given
initialState_Dropped(p) == Undefined

\* let currentState = preloadedState
initialState(p) == p.value

\* createStore(reducer, preloadedState, enhancer) up to the hand-over to the
\* enhancer; applyMiddleware calls createStore(reducer, preloadedState) again
\* (applyMiddleware.js line 41), which takes the path without enhancer
CreateStore ==
    /\ pc = "args"
    /\ LET a == resolved(args)
       IN  IF typeof(a.enhancer) # "undefined" /\ typeof(a.enhancer) # "function"
           THEN /\ pc' = "failed"
                /\ result' = Raised("createStore", "ConfigError", NoAction)
           ELSE IF typeof(a.enhancer) = "function" /\ a.enhancer.fn = "foreign"
           THEN /\ pc' = "foreign"
                /\ result' = Returned("createStore", Undefined, NoAction)
           ELSE /\ pc' = "base"
                /\ result' = NoResult
    /\ UNCHANGED <<currentReducer, currentState, currentListeners, nextListeners,
                   isDispatching, arrays, subs, stack, nd, applied, state0,
                   args, chain, dispatch, calls, trace, ncalls>>

\* the path without enhancer: the check of the reducer and the variables
BaseStore ==
    /\ pc = "base"
    /\ LET a == resolved(args)
       IN  IF a.reducer = NotAFunction
           THEN /\ pc' = "failed"
                /\ result' = Raised("createStore", "ConfigError", NoAction)
                /\ UNCHANGED <<currentReducer, currentState, currentListeners,
                               nextListeners, isDispatching, nd>>
           ELSE /\ pc' = "init"
                /\ result' = NoResult
                /\ currentReducer' = a.reducer
                /\ currentState' = initialState(a.preloadedState)
                /\ currentListeners' = 1
                /\ nextListeners' = 1
                /\ isDispatching' = FALSE
                /\ nd' = -1
    /\ UNCHANGED <<arrays, subs, stack, applied, state0,
                   args, chain, dispatch, calls, trace, ncalls>>

\* dispatch({ type: ActionTypes.INIT }): the dispatch call number 0
DispatchInit ==
    /\ pc = "init"
    /\ pc' = "initializing"
    /\ UNCHANGED currentReducer
    /\ ScopeCall("createStore", PlainAction(INIT))
    /\ UNCHANGED <<currentState, currentListeners, nextListeners, arrays, subs,
                   applied, state0, args, chain, dispatch, ncalls>>

\* return { dispatch, subscribe, getState, replaceReducer, ... }: to the
\* caller, or to applyMiddleware; an error of the INIT dispatch is not caught
ReturnStore ==
    /\ pc = "initializing"
    /\ stack = <<>>
    /\ IF result.status \in Errors
       THEN /\ pc' = "failed"
            /\ UNCHANGED <<result, state0>>
       ELSE /\ pc' = IF Enhanced THEN "enhance" ELSE "ready"
            /\ state0' = currentState
            /\ result' = Returned("createStore", Undefined, NoAction)
    /\ UNCHANGED <<currentReducer, currentState, currentListeners, nextListeners,
                   isDispatching, arrays, subs, stack, nd, applied,
                   args, chain, dispatch, calls, trace, ncalls>>

\* ---------------------------------------------------------------- applyMiddleware
\* the middlewares a caller may list, api => next => action => ... :
\*   forward  action => next(action)
\*   filter   action => action.type === 'dbl' ? value : next(action)
\*   again    action => { if (action.type === 'dbl') api.dispatch({type: 'inc'})
\*                        return next(action) }
\*   early    calls api.dispatch({type: 'inc'}) when it is given the api
\*   hasty    calls api.dispatch({type: 'inc'}) when it is given next
MiddlewareKinds == {"forward", "filter", "again", "early", "hasty"}

\* what the filter at position i returns when it stops an action
HandlerValue(i) == 100 + i

\* a factory (next => action => ...) applied to the next stage's dispatch:
\* the handler of middleware i in front of that stage
ApplyFactory(i, nextFn) == Composed(<<i>> \o nextFn.stages)

RECURSIVE compose(_, _)
\* compose(f1, ..., fn)(x) = f1(f2(...fn(x))); compose()(x) = x
compose(fs, x) ==
    IF fs = <<>> THEN x
    ELSE ApplyFactory(Head(fs), compose(Tail(fs), x))

\* store.dispatch, the dispatch of the base engine
storeDispatch == Composed(<<>>)

RECURSIVE Reverse(_)
Reverse(seq) == IF seq = <<>> THEN <<>> ELSE Append(Reverse(Tail(seq)), Head(seq))

\* mutant: the chain is composed left to right
assemble_Reversed(ch) == compose(Reverse(ch), storeDispatch)

\* dispatch = compose(...chain)(store.dispatch)
assemble(ch) == compose(ch, storeDispatch)

\* mutant: dispatch starts as store.dispatch instead of the function that throws
initialDispatch_Store == storeDispatch

\* let dispatch = () => { throw new Error('Dispatching while constructing ...') }
initialDispatch == Thrower

\* mutant: the api holds store.dispatch
apiDispatch_Store == storeDispatch

\* middlewareAPI.dispatch = (...args) => dispatch(...args): the function that
\* `dispatch` holds at the time of the call
apiDispatch == dispatch

\* mutant: the engine is returned with the dispatch of the base engine
engineDispatch_Store == storeDispatch

\* return { ...store, dispatch }: the dispatch field of the engine returned
engineDispatch == dispatch

\* history: as part of dispatch call number `call`, action a is given to
\* the handler of middleware `who` (0: to store.dispatch), by the code
\* outside (top) or by a handler, with the state and the number of
\* completed transitions of that moment
Event(call, who, a, callers) ==
    [call |-> call, who |-> who, action |-> a, top |-> callers = <<>>,
     state |-> currentState, n |-> Len(applied)]

\* fn(a), called by a caller whose own calls in flight are `callers`, as
\* part of dispatch call number `call`: fn throws, or is store.dispatch, or
\* is the handler of a middleware
Call(fn, a, callers, call) ==
    IF fn.throws
    THEN /\ result' = Raised("dispatch", "AssemblyError", a)
         /\ calls' = callers
         /\ UNCHANGED <<isDispatching, stack, nd, trace>>
    ELSE IF fn.stages = <<>>
    THEN /\ DispatchEnter("dispatch", a)
         /\ calls' = callers
         /\ trace' = Append(trace, Event(call, 0, a, callers))
    ELSE /\ calls' = Append(callers,
                [mw |-> Head(fn.stages), next |-> Tail(fn.stages),
                 action |-> a, pc |-> "run", call |-> call])
         /\ trace' = Append(trace, Event(call, Head(fn.stages), a, callers))
         /\ result' = NoResult
         /\ UNCHANGED <<isDispatching, stack, nd>>

\* let dispatch = ...; let chain = []; const middlewareAPI = { ... }
ApplyMiddleware ==
    /\ pc = "enhance"
    /\ pc' = "map"
    /\ dispatch' = initialDispatch
    /\ chain' = <<>>
    /\ result' = NoResult
    /\ UNCHANGED <<currentReducer, currentState, currentListeners, nextListeners,
                   isDispatching, arrays, subs, stack, nd, applied, state0,
                   args, calls, trace, ncalls>>

\* chain = middlewares.map(middleware => middleware(middlewareAPI)), one
\* middleware at a time; an error raised by a middleware ends construction
CallMiddleware ==
    /\ pc = "map"
    /\ stack = <<>>
    /\ Len(chain) < Len(args.middlewares)
    /\ LET i == Len(chain) + 1
       IN  IF args.middlewares[i] = "early"
           THEN /\ ncalls < MaxDispatches
                /\ ncalls' = ncalls + 1
                /\ UNCHANGED currentReducer
                /\ Call(apiDispatch, PlainAction("inc"), <<>>, ncalls + 1)
                /\ IF apiDispatch.throws
                   THEN pc' = "failed" /\ UNCHANGED chain
                   ELSE pc' = pc /\ chain' = Append(chain, i)
           ELSE /\ chain' = Append(chain, i)
                /\ result' = NoResult
                /\ UNCHANGED <<currentReducer, isDispatching, stack, nd, pc,
                               calls, trace, ncalls>>
    /\ UNCHANGED <<currentState, currentListeners, nextListeners, arrays, subs,
                   applied, state0, args, dispatch>>

\* dispatch = compose(...chain)(store.dispatch); return { ...store, dispatch }.
\* compose applies the factories from the last to the first, so the last
\* hasty one is the first to dispatch
Compose ==
    /\ pc = "map"
    /\ stack = <<>>
    /\ Len(chain) = Len(args.middlewares)
    /\ IF \E i \in DOMAIN chain : args.middlewares[chain[i]] = "hasty"
       THEN /\ ncalls < MaxDispatches
            /\ ncalls' = ncalls + 1
            /\ UNCHANGED currentReducer
            /\ Call(apiDispatch, PlainAction("inc"), <<>>, ncalls + 1)
            /\ IF apiDispatch.throws
               THEN pc' = "failed" /\ UNCHANGED dispatch
               ELSE pc' = "ready" /\ dispatch' = assemble(chain)
       ELSE /\ dispatch' = assemble(chain)
            /\ pc' = "ready"
            /\ result' = Returned("createStore", Undefined, NoAction)
            /\ UNCHANGED <<currentReducer, isDispatching, stack, nd,
                           calls, trace, ncalls>>
    /\ UNCHANGED <<currentState, currentListeners, nextListeners, arrays, subs,
                   applied, state0, args, chain>>

\* return { dispatch, subscribe, getState, replaceReducer, [$$observable] }
store ==
    [dispatch |-> storeDispatch, subscribe |-> "subscribe",
     getState |-> "getState", replaceReducer |-> "replaceReducer",
     observable |-> "observable"]

\* mutant: the enhancer returns an engine of two fields of its own
enhance_Rebuilt(st, d) ==
    [dispatch |-> d, subscribe |-> "undefined", getState |-> "getState",
     replaceReducer |-> "undefined", observable |-> "undefined"]

\* return { ...store, dispatch }
enhance(st, d) == [st EXCEPT !.dispatch = d]

\* the engine createStore has returned to its caller
engine == IF Enhanced THEN enhance(store, engineDispatch) ELSE store

\* ---------------------------------------------------------------- handlers
\* the engine has been returned and its caller is running
Ready == pc = "ready" /\ stack = <<>> /\ calls = <<>>

\* the innermost handler in flight, when it is the code running
Handler == calls[Len(calls)]
Handling == calls # <<>> /\ stack = <<>>
KindOf(f) == args.middlewares[f.mw]

\* engine.dispatch(action), called by the caller of the engine
EnhancedDispatch(a) ==
    /\ Ready
    /\ ncalls < MaxDispatches
    /\ ncalls' = ncalls + 1
    /\ UNCHANGED currentReducer
    /\ Call(engine.dispatch, a, <<>>, ncalls + 1)
    /\ UNCHANGED <<currentState, currentListeners, nextListeners, arrays, subs,
                   applied, state0, args, pc, chain, dispatch>>

\* a handler calls next(action)
HandlerCallsNext ==
    /\ Handling
    /\ \/ Handler.pc = "run" /\ KindOf(Handler) # "block"
                            /\ ~(KindOf(Handler) \in {"filter", "again"}
                                   /\ Handler.action.type = "dbl")
       \/ Handler.pc = "again" /\ result.status \notin Errors
    /\ UNCHANGED currentReducer
    /\ Call(Composed(Handler.next), Handler.action,
            SetTop(calls, [Handler EXCEPT !.pc = "next"]), Handler.call)
    /\ UNCHANGED <<currentState, currentListeners, nextListeners, arrays, subs,
                   applied, state0, args, pc, chain, dispatch, ncalls>>

\* the filter, or the middleware that stops every action, returns its own
\* value without calling next
HandlerShortCircuits ==
    /\ Handling
    /\ Handler.pc = "run"
    /\ \/ KindOf(Handler) = "filter" /\ Handler.action.type = "dbl"
       \/ KindOf(Handler) = "block"
    /\ calls' = Pop(calls)
    /\ result' = Returned("dispatch", HandlerValue(Handler.mw), Handler.action)
    /\ UNCHANGED <<currentReducer, currentState, currentListeners, nextListeners,
                   isDispatching, arrays, subs, stack, nd, applied, state0,
                   args, pc, chain, dispatch, trace, ncalls>>

\* a handler calls api.dispatch({ type: 'inc' })
HandlerRedispatches ==
    /\ Handling
    /\ Handler.pc = "run"
    /\ KindOf(Handler) = "again"
    /\ Handler.action.type = "dbl"
    /\ ncalls < MaxDispatches
    /\ ncalls' = ncalls + 1
    /\ UNCHANGED currentReducer
    /\ Call(apiDispatch, PlainAction("inc"),
            SetTop(calls, [Handler EXCEPT !.pc = "again"]), ncalls + 1)
    /\ UNCHANGED <<currentState, currentListeners, nextListeners, arrays, subs,
                   applied, state0, args, pc, chain, dispatch>>

\* a handler returns what next(action) returned, or lets the error of the
\* call it made pass
HandlerReturns ==
    /\ Handling
    /\ \/ Handler.pc = "next"
       \/ Handler.pc = "again" /\ result.status \in Errors
    /\ calls' = Pop(calls)
    /\ UNCHANGED <<currentReducer, currentState, currentListeners, nextListeners,
                   isDispatching, arrays, subs, stack, result, nd, applied, state0,
                   args, pc, chain, dispatch, trace, ncalls>>

\* ---------------------------------------------------------------- Next
\* the callbacks a caller may subscribe: one it has subscribed before, or a
\* new one (new callbacks are interchangeable: the least unused stands for all)
FreshOrKnown ==
    {l \in Listeners : \A m \in Listeners :
        m < l => \E h \in DOMAIN subs : subs[h].fn = m}

\* the steps of a dispatch call in flight
Internal ==
    \/ ReducerReturns
    \/ ReducerThrows
    \/ CallListener
    \/ ListenerReturns
    \/ ListenerThrows
    \/ DispatchReturns

\* Listeners that call back into the store: the caller outside and every
\* listener callback may read, subscribe, unsubscribe and dispatch (so
\* dispatch calls nest); reducers are pure, apart from raising.
ListenerArgs == {PlainAction("inc"), PlainAction("boom")}

Next ==
    \/ Context # "reduce" /\ GetState
    \/ Context # "reduce" /\ \E l \in FreshOrKnown : Subscribe(l)
    \/ Context # "reduce" /\ \E h \in 1..MaxSubs : Unsubscribe(h)
    \/ Context # "reduce" /\ \E a \in ListenerArgs : Dispatch(a)
    \/ Internal

Spec == InitCount /\ [][Next]_vars

\* Callers and reducers that misuse the store: the caller outside and the
\* running reducer make every call with every kind of argument; listeners
\* are passive.
NextGuards ==
    \/ Context # "listener" /\ GetState
    \/ Context # "listener" /\ \E l \in FreshOrKnown \cup {NotCallable} : Subscribe(l)
    \/ Context # "listener" /\ \E h \in 1..MaxSubs : Unsubscribe(h)
    \/ Context # "listener" /\ \E a \in DispatchArgs : Dispatch(a)
    \/ Internal

SpecGuards == Init /\ [][NextGuards]_vars

\* every caller makes every call, and may replace the reducer
NextAll ==
    \/ GetState
    \/ \E l \in FreshOrKnown \cup {NotCallable} : Subscribe(l)
    \/ \E h \in 1..MaxSubs : Unsubscribe(h)
    \/ \E a \in DispatchArgs : Dispatch(a)
    \/ \E r \in Reducers \cup {NotAFunction} : ReplaceReducer(r)
    \/ Internal

SpecAll == Init /\ [][NextAll]_vars

\* Construction and middleware: createStore is called with every kind of
\* argument; the engine it returns is used by the caller outside only, who
\* reads, subscribes new listeners, dispatches and replaces the reducer by
\* another one or by something not callable; reducers and listeners are
\* passive.
MaxMiddlewares == 2

RECURSIVE Lists(_, _)
\* the lists of at most n elements of S
Lists(S, n) ==
    IF n = 0 THEN {<<>>}
    ELSE Lists(S, n - 1) \cup
         {Append(l, x) : l \in {m \in Lists(S, n - 1) : Len(m) = n - 1}, x \in S}

SecondArgs == {UndefinedArg, ValueArg(2)} \cup {FunctionArg(e) : e \in Enhancers}
ThirdArgs == {UndefinedArg, ValueArg(7)} \cup {FunctionArg(e) : e \in Enhancers}

\* the calls of createStore: every combination of arguments without
\* middleware (a state that is itself a function is outside the reducers'
\* domain), and applyMiddleware with every list of middlewares
CreateArgs ==
    {[reducer |-> r, preloadedState |-> p, enhancer |-> e, middlewares |-> <<>>] :
        r \in Reducers \cup {NotAFunction},
        p \in SecondArgs,
        e \in {x \in ThirdArgs : typeof(x) # "function"}}
    \cup
    {[reducer |-> r, preloadedState |-> p, enhancer |-> e, middlewares |-> <<>>] :
        r \in Reducers \cup {NotAFunction},
        p \in {x \in SecondArgs : typeof(x) # "function"},
        e \in ThirdArgs}
    \cup
    {[reducer |-> "count", preloadedState |-> UndefinedArg,
      enhancer |-> FunctionArg("applyMiddleware"), middlewares |-> m] :
        m \in Lists(MiddlewareKinds, MaxMiddlewares)}

\* before createStore is called: the variables of the engine do not exist
NotCreated(calls_) ==
    /\ args \in calls_
    /\ pc = "args"
    /\ currentReducer = NotAFunction
    /\ currentState = Undefined
    /\ state0 = Undefined
    /\ currentListeners = 0
    /\ nextListeners = 0
    /\ isDispatching = FALSE
    /\ arrays = [n \in ArrayIds |-> <<>>]
    /\ subs = <<>>
    /\ stack = <<>>
    /\ result = NoResult
    /\ nd = -1
    /\ applied = <<>>
    /\ chain = <<>>
    /\ dispatch = storeDispatch
    /\ calls = <<>>
    /\ trace = <<>>
    /\ ncalls = 0

InitCreate == NotCreated(CreateArgs)

EngineArgs == {PlainAction("inc"), PlainAction("dbl"), PlainAction("boom")}

NextCreate ==
    \/ CreateStore
    \/ BaseStore
    \/ DispatchInit
    \/ ReturnStore
    \/ ApplyMiddleware
    \/ CallMiddleware
    \/ Compose
    \/ Ready /\ engine.getState = "getState" /\ GetState
    \/ Ready /\ engine.subscribe = "subscribe" /\ Subscribe(Len(subs) + 1)
    \/ Ready /\ engine.replaceReducer = "replaceReducer"
             /\ \E r \in (Reducers \ {currentReducer}) \cup {NotAFunction} :
                    ReplaceReducer(r)
    \/ \E a \in EngineArgs : EnhancedDispatch(a)
    \/ HandlerCallsNext
    \/ HandlerShortCircuits
    \/ HandlerRedispatches
    \/ HandlerReturns
    \/ Internal

SpecCreate == InitCreate /\ [][NextCreate]_vars

\* ---------------------------------------------------------------- SpecBlock
\* createStore(count, applyMiddleware(...)) with lists of middlewares among
\* which one stops every action it is given; the engine is used as under
\* SpecCreate.
BlockKinds == {"block", "forward", "again"}

BlockArgs ==
    {[reducer |-> "count", preloadedState |-> UndefinedArg,
      enhancer |-> FunctionArg("applyMiddleware"), middlewares |-> m] :
        m \in Lists(BlockKinds, MaxMiddlewares)}

InitBlock == NotCreated(BlockArgs)

SpecBlock == InitBlock /\ [][NextCreate]_vars

\* ---------------------------------------------------------------- SpecSubs
\* A caller and listeners that subscribe and unsubscribe while no reducer
\* runs, the caller dispatching in between; the calls of subscribe and of
\* the unsubscribe closures are logged in the order they are made.
MaxCalls == 4

Logged(call, who) ==
    /\ Len(trace) < MaxCalls
    /\ trace' = Append(trace, [call |-> call, who |-> who])
    /\ UNCHANGED <<args, pc, chain, dispatch, calls, ncalls>>

NextSubs ==
    \/ Context # "reduce" /\ \E l \in FreshOrKnown :
          subscribe(l) /\ Logged("subscribe", Len(subs) + 1)
    \/ Context # "reduce" /\ \E h \in 1..MaxSubs :
          unsubscribe(h) /\ Logged("unsubscribe", h)
    \/ Context = "top" /\ \E a \in ListenerArgs : Dispatch(a)
    \/ Internal

SpecSubs == InitCount /\ [][NextSubs]_vars

\* ---------------------------------------------------------------- SpecBusy
\* A caller that subscribes listeners of its own, dispatches and calls the
\* unsubscribe closures, and reducers that call the unsubscribe closures
\* while they run and raise or not when refused; the calls of the closures
\* are logged with the flag they found.
Attempted(h) ==
    /\ Len(trace) < MaxCalls
    /\ trace' = Append(trace, [call |-> "unsubscribe", who |-> h,
                               busy |-> isDispatching])
    /\ UNCHANGED <<args, pc, chain, dispatch, calls, ncalls>>

NextBusy ==
    \/ Context = "top" /\ Subscribe(Len(subs) + 1)
    \/ Context \in {"top", "reduce"} /\ \E h \in 1..MaxSubs :
          unsubscribe(h) /\ Attempted(h)
    \/ Context = "top" /\ Dispatch(PlainAction("inc"))
    \/ Internal

SpecBusy == InitCount /\ [][NextBusy]_vars

\* ---------------------------------------------------------------- observable
\* the observers a caller may pass to observable().subscribe
NotAnObject == "notAnObject"
Observers == {"withNext", "withoutNext"}
hasNext(o) == o = "withNext"

\* history: what observable().subscribe, the unsubscribe closures and
\* observer.next were called with; id is the dispatch call that notifies
\* (0: none) for "next", and the number of dispatch calls made so far for
\* the other two
Logs(call, who, next, id) ==
    [call |-> call, who |-> who, next |-> next, state |-> currentState,
     id |-> id, n |-> Len(applied)]

\* the listener functions observeState made by observable().subscribe
\* for an observer with a next callback
ObserveStates ==
    {subs[trace[k].who].fn : k \in {j \in DOMAIN trace :
                                      trace[j].call = "observe" /\ trace[j].next}}

\* mutant: the state is not delivered at subscription
observeState_Lazy(h, id) == <<>>

\* observeState(): if (observer.next) observer.next(getState()), called
\* by observable().subscribe (id 0) or by the loop of dispatch call id
observeState(h, id) == <<Logs("next", h, TRUE, id)>>

\* observable().subscribe(observer)
ObservableSubscribe(o) ==
    /\ UserCode
    /\ IF o = NotAnObject
       THEN /\ result' = Raised("observable.subscribe", "ValidationError", NoAction)
            /\ UNCHANGED <<currentReducer, currentState, currentListeners,
                           nextListeners, isDispatching, arrays, subs, stack,
                           nd, applied, state0, trace>>
       ELSE IF hasNext(o) /\ getStateRejects
       THEN /\ result' = Raised("observable.subscribe", "ReentrancyError", NoAction)
            /\ UNCHANGED <<currentReducer, currentState, currentListeners,
                           nextListeners, isDispatching, arrays, subs, stack,
                           nd, applied, state0, trace>>
       ELSE LET h == Len(subs) + 1
            IN  /\ subscribe(h)
                /\ trace' = trace
                      \o (IF hasNext(o)
                          THEN observeState(h, 0) ELSE <<>>)
                      \o (IF subscribeRejects THEN <<>>
                          ELSE <<Logs("observe", h, hasNext(o), nd)>>)
    /\ UNCHANGED <<args, pc, chain, dispatch, calls, ncalls>>

\* subscription.unsubscribe(), and the closures of plain subscriptions
LoggedUnsubscribe(h) ==
    /\ unsubscribe(h)
    /\ trace' = Append(trace, Logs("unsubscribe", h, FALSE, nd))
    /\ UNCHANGED <<args, pc, chain, dispatch, calls, ncalls>>

\* listeners[i](), where the listener may be an observeState
Notify ==
    /\ callListener
    /\ LET e == iterated(Top)[Top.i + 1]
       IN  trace' = IF e.fn \in ObserveStates
                    THEN trace \o observeState(e.fn, Top.id)
                    ELSE trace
    /\ UNCHANGED <<args, pc, chain, dispatch, calls, ncalls>>

\* ---------------------------------------------------------------- SpecObserve
\* A caller that subscribes listeners, attaches observers with a next
\* callback, calls the
\* unsubscribe closures and dispatches; the plain listeners call the
\* unsubscribe closures and dispatch too; a closure is called once;
\* reducers are pure and listeners may raise.
Running == Top.called[Len(Top.called)]

Caller ==
    \/ Context = "top"
    \/ Context = "listener" /\ Running.fn \notin ObserveStates

NextObserve ==
    \/ Context = "top" /\ Subscribe(Len(subs) + 1)
    \/ Context = "top" /\ \E o \in {x \in Observers : hasNext(x)} :
          ObservableSubscribe(o)
    \/ Caller /\ \E h \in DOMAIN subs :
          subs[h].isSubscribed /\ LoggedUnsubscribe(h)
    \/ Caller /\ Dispatch(PlainAction("inc"))
    \/ ReducerReturns
    \/ Notify
    \/ ListenerReturns
    \/ ListenerThrows
    \/ DispatchReturns

SpecObserve == InitCount /\ [][NextObserve]_vars

\* ---------------------------------------------------------------- SpecTimers
\* Timers and deferred callbacks of the host, each dispatching one action
\* when it fires.  The host runs a callback only when the call stack is
\* empty and runs it to completion; the order in which they fire is free.
\* Listeners are passive.
Timers == 1..MaxDispatches

Fired == {trace[k].who : k \in DOMAIN trace}

TimerFires(t, a) ==
    /\ stack = <<>>
    /\ t \notin Fired
    /\ dispatchCall(a)
    /\ trace' = Append(trace, [call |-> "dispatch", who |-> t, action |-> a])
    /\ UNCHANGED <<args, pc, chain, dispatch, calls, ncalls>>

NextTimers ==
    \/ Context = "top" /\ Subscribe(Len(subs) + 1)
    \/ \E t \in Timers, a \in ValidActions : TimerFires(t, a)
    \/ Internal

SpecTimers == Init /\ [][NextTimers]_vars

\* ---------------------------------------------------------------- SpecOrder
\* A caller that subscribes callbacks, the same one more than once, ends
\* subscriptions and dispatches; one subscription more than there are
\* callbacks can be made.  Listeners are passive.
NextOrder ==
    \/ Context = "top" /\ \E l \in FreshOrKnown :
          subscribeUpTo(l, MaxSubs + 1) /\ UNCHANGED evars
    \/ Context = "top" /\ \E h \in DOMAIN subs :
          subs[h].isSubscribed /\ Unsubscribe(h)
    \/ Context = "top" /\ Dispatch(PlainAction("inc"))
    \/ ReducerReturns
    \/ CallListener
    \/ ListenerReturns
    \/ ListenerThrows
    \/ DispatchReturns

SpecOrder == InitCount /\ [][NextOrder]_vars

\* ---------------------------------------------------------------- SpecReplace
\* Reducers that call replaceReducer with the other reducer while they
\* run, and catch the error or not; the caller subscribes and dispatches;
\* listeners are passive.
NextReplace ==
    \/ Context = "top" /\ Subscribe(Len(subs) + 1)
    \/ Context = "top" /\ \E a \in {PlainAction("inc"), PlainAction("dbl")} :
          Dispatch(a)
    \/ Context = "reduce" /\ \E r \in Reducers \ {currentReducer} :
          ReplaceReducer(r)
    \/ Internal

SpecReplace == InitCount /\ [][NextReplace]_vars

\* ---------------------------------------------------------------- properties
RECURSIVE FoldLeft(_, _, _)
\* T(...T(T(s, a1), a2)..., an) for the actions of hist, oldest first
FoldLeft(r, hist, s) ==
    IF hist = <<>> THEN s
    ELSE ReducerResult(r, FoldLeft(r, SubSeq(hist, 1, Len(hist) - 1), s),
                       hist[Len(hist)].action)

InFlight == DOMAIN stack
Notifying(k) == stack[k].pc # "reduce"
\* the loop of frame k is over and the call is about to return
AtReturn(k) == stack[k].pc = "notify" /\ stack[k].i >= Len(iterated(stack[k]))
Fns(seq) == {seq[j].fn : j \in DOMAIN seq}
Regs(seq) == {seq[j].reg : j \in DOMAIN seq}
\* subscription h was made before the in-flight dispatch f started
MadeBefore(h, f) == subs[h].born < f.id
\* ... and had not been cancelled when f started
ActiveAtStart(h, f) ==
    MadeBefore(h, f) /\ (subs[h].isSubscribed \/ subs[h].diedIn >= f.id)

\* C1: as long as the reducer was never replaced, the state equals the
\* left fold of the reducer over the actions whose transitions completed,
\* in the order of the dispatch calls, from the post-construction state,
\* and that is the value getState returns.
C1_StateIsLeftFold ==
    (\A k \in DOMAIN applied : applied[k].reducer = currentReducer) =>
        /\ currentState = FoldLeft(currentReducer, applied, state0)
        /\ \A k \in DOMAIN applied : \A j \in DOMAIN applied :
              k < j => applied[k].id < applied[j].id
        /\ (result.op = "getState" /\ result.status = "ok") =>
              result.value = FoldLeft(currentReducer, applied, state0)

C1_Witness ==
    /\ stack = <<>>
    /\ Len(applied) = 2
    /\ applied[1].action.type = "inc"
    /\ applied[2].action.type = "dbl"
    /\ currentReducer = "calc"
    /\ result.op = "getState"
    /\ result.value = 2 * (state0 + 1)

\* C2: the flag is Dispatching exactly while a reducer is running, so it is
\* Idle after every dispatch has left its try block, by return or by
\* raise; and no call made in Idle ends in a reentrancy error.
C2_FlagRestored ==
    /\ isDispatching <=> (stack # <<>> /\ Top.pc = "reduce")
    /\ result.status = "ReentrancyError" => isDispatching
    /\ (result.op = "getState" /\ ~isDispatching) =>
          (result.status = "ok" /\ result.value = currentState)

\* a dispatch raised out of its reducer, and the next dispatch was accepted
\* and a getState after it answered
C2_Witness ==
    /\ stack = <<>>
    /\ nd = 2
    /\ Len(applied) = 1
    /\ applied[1].id = 2
    /\ result.op = "getState"
    /\ result.status = "ok"

\* C3: only the innermost dispatch in flight can be inside its reducer
\* (reducer executions never nest); while it is, the state is the one the
\* reducer was called with, no other transition has completed and the
\* registry is the one of its entry; a dispatch called there with a valid
\* action ends in a reentrancy error.
C3_NoNestedTransition ==
    /\ \A k \in InFlight : stack[k].pc = "reduce" =>
          /\ k = Len(stack)
          /\ currentState = stack[k].pre
          /\ Len(applied) = stack[k].n0
          /\ arrays[nextListeners] = stack[k].snap
    /\ (stack # <<>> /\ Top.pc = "reduce" /\ result.op = "dispatch") =>
          \/ result.status = "ReentrancyError"
          \/ result.status = "ValidationError" /\ result.act \in MalformedActions

C3_Witness ==
    /\ Len(stack) = 1
    /\ Top.pc = "reduce"
    /\ result.op = "dispatch"
    /\ result.status = "ReentrancyError"
    /\ nd < MaxDispatches

\* C4: a getState or subscribe call made while the flag is Dispatching
\* gives no state value and no handle: it raises a reentrancy error
\* (subscribe raises a validation error for a listener that is not
\* callable); the state, the registry and the subscriptions are as they
\* were when the transition started.
C4_ReadsRejectedWhileDispatching ==
    isDispatching =>
        /\ result.op = "getState" =>
              (result.status = "ReentrancyError" /\ result.value = Undefined)
        /\ result.op = "subscribe" =>
              (result.status \in {"ReentrancyError", "ValidationError"}
               /\ result.value = Undefined)
        /\ stack # <<>>
        /\ currentState = Top.pre
        /\ arrays[nextListeners] = Top.snap
        /\ \A h \in DOMAIN subs : subs[h].born < Top.id

C4_Witness ==
    /\ isDispatching
    /\ result.op = "subscribe"
    /\ result.status = "ReentrancyError"
    /\ Len(subs) = 1

\* C5: the array a dispatch in flight iterates over still has the content
\* it had when the dispatch took it as its snapshot, whatever listeners
\* have subscribed, unsubscribed or dispatched since.
C5_SnapshotNeverMutated ==
    \A k \in InFlight : Notifying(k) => arrays[stack[k].listeners] = stack[k].snap

\* two dispatches in flight, each with its own snapshot, and a live list
\* that differs from both
C5_Witness ==
    /\ Len(stack) = 2
    /\ Notifying(1) /\ Notifying(2)
    /\ stack[1].snap # stack[2].snap
    /\ arrays[nextListeners] # stack[1].snap
    /\ arrays[nextListeners] # stack[2].snap

\* C6 as stated: every listener of the snapshot is invoked once by the
\* dispatch and, when invoked, reads the post-transition state of that
\* dispatch.
C6_SeesOwnPostState ==
    \A k \in InFlight : Notifying(k) =>
        /\ \A j \in DOMAIN stack[k].seen : stack[k].seen[j].state = stack[k].post
        /\ AtReturn(k) => stack[k].called = stack[k].snap

\* C6, amended: every listener registered when a dispatch starts is invoked
\* exactly once by that dispatch's loop, after its transition completed and
\* before it returns, and reads the latest state: the result of the most
\* recent completed transition, which is this dispatch's unless a listener
\* dispatched again in between.
C6_SeesLatestState ==
    \A k \in InFlight : Notifying(k) =>
        /\ Len(stack[k].seen) = Len(stack[k].called)
        /\ \A j \in DOMAIN stack[k].seen :
              /\ stack[k].seen[j].n > stack[k].n0
              /\ stack[k].seen[j].state = applied[stack[k].seen[j].n].post
        /\ applied[stack[k].n0 + 1].id = stack[k].id
        /\ applied[stack[k].n0 + 1].post = stack[k].post
        /\ AtReturn(k) => stack[k].called = stack[k].snap

\* a dispatch about to return that invoked two listeners, the second one
\* after a nested dispatch had changed the state again
C6_Witness ==
    /\ Len(stack) = 1
    /\ AtReturn(1)
    /\ Len(stack[1].called) = 2
    /\ stack[1].seen[2].state # stack[1].post

\* C7: a listener subscribed from inside a listener callback is not invoked
\* by the dispatch that was notifying, nor by one that encloses it; every
\* dispatch that starts afterwards while the subscription is active has the
\* callback in its snapshot and has invoked it by the time it returns.
C7_SubscribedDuringNotify ==
    \A h \in DOMAIN subs : subs[h].born > 0 =>
        \A k \in InFlight :
            /\ stack[k].id <= subs[h].born => h \notin Regs(stack[k].called)
            /\ (stack[k].id > subs[h].born /\ ActiveAtStart(h, stack[k])) =>
                  /\ subs[h].fn \in Fns(stack[k].snap)
                  /\ AtReturn(k) => subs[h].fn \in Fns(stack[k].called)

\* the listener subscribed during the first dispatch is invoked by the second
C7_Witness ==
    \E h \in DOMAIN subs : \E k \in InFlight :
        /\ subs[h].born > 0
        /\ stack[k].id > subs[h].born
        /\ h \in Regs(stack[k].called)

C9_RegistrationOrder ==
    \A k \in InFlight :
        /\ \A j \in DOMAIN stack[k].snap : \A m \in DOMAIN stack[k].snap :
              j < m => stack[k].snap[j].reg < stack[k].snap[m].reg
        /\ \A j \in DOMAIN stack[k].called : stack[k].called[j] = stack[k].snap[j]
        /\ stack[k].pc = "reduce" => stack[k].called = <<>>
        /\ stack[k].called # <<>> => Len(applied) > stack[k].n0
        /\ AtReturn(k) => Len(stack[k].called) = Len(stack[k].snap)

C9_Witness ==
    /\ Len(stack) = 1
    /\ AtReturn(1)
    /\ Len(stack[1].called) = 2
    /\ stack[1].called[1].fn # stack[1].called[2].fn
    /\ currentState = stack[1].post

\* C10: a dispatch call with a malformed argument ends in a validation
\* error and changes nothing but the outcome reported to its caller: no
\* frame is entered, the flag, the state, the registry and the history of
\* transitions stay; no malformed action ever reaches a reducer.
C10_MalformedRejected ==
    /\ [](\A k \in InFlight : stack[k].action \in ValidActions \cup
                                  {PlainAction(t) : t \in ActionTypes})
    /\ [](result.op = "dispatch" =>
            (result.act \in MalformedActions <=> result.status = "ValidationError"))
    /\ [][(result'.op = "dispatch" /\ result'.act \in MalformedActions) =>
            UNCHANGED <<currentReducer, currentState, currentListeners,
                        nextListeners, isDispatching, arrays, subs, stack,
                        nd, applied, state0>>]_vars

C10_Witness ==
    /\ result.op = "dispatch"
    /\ result.status = "ValidationError"
    /\ result.act = PlainAction("undefined")
    /\ Len(applied) = 1
    /\ stack = <<>>

\* C11: when the reducer raises, the error reaches the caller of dispatch
\* (or of replaceReducer), the state is the one the dispatch started with,
\* nothing is recorded as a transition, the registry (current and next
\* list, and their arrays) is untouched and the call is over without
\* having entered its notification loop: no dispatch whose reducer raises
\* is ever found notifying.
C11_ReducerRaisePropagates ==
    /\ [](\A k \in InFlight :
            Notifying(k) => ~Raises(stack[k].reducer, stack[k].pre, stack[k].action))
    /\ [][(/\ stack # <<>>
           /\ Top.pc = "reduce"
           /\ Raises(Top.reducer, Top.pre, Top.action)
           /\ stack' # stack) =>
              /\ stack' = Pop(stack)
              /\ Top.called = <<>>
              /\ result'.status = "TransitionError"
              /\ result'.op = Top.via
              /\ currentState' = Top.pre
              /\ UNCHANGED <<currentReducer, currentState, currentListeners,
                             nextListeners, arrays, subs, applied>>]_vars

\* a dispatch raised out of its reducer with two listeners registered
C11_Witness ==
    /\ stack = <<>>
    /\ result.op = "dispatch"
    /\ result.status = "TransitionError"
    /\ Len(arrays[nextListeners]) = 2
    /\ applied = <<>>

\* the engine exists: the path without enhancer has returned it
Constructed == pc \in {"enhance", "map", "ready"}
\* ... and nothing has been done with it yet
JustConstructed ==
    Constructed /\ nd = 0 /\ ncalls = 0 /\ subs = <<>> /\ stack = <<>>

\* T(initialState, initializeAction), T(undefined, initializeAction) when
\* createStore was given no initial state
InitialResult ==
    ReducerResult(args.reducer,
                  IF typeof(args.preloadedState) = "number"
                  THEN args.preloadedState.value ELSE Undefined,
                  PlainAction(INIT))

\* C12: construction runs the reducer exactly once, on the INIT action:
\* the one transition completed when the engine is returned is that one,
\* getState gives T(initialState, INIT) (T(undefined, INIT) without an
\* initial state), the flag is Idle and the registry is empty; INIT is
\* never dispatched again.
C12_FreshEngine ==
    /\ Constructed =>
          /\ applied # <<>>
          /\ applied[1].action = PlainAction(INIT)
          /\ applied[1].id = 0
          /\ applied[1].reducer = args.reducer
          /\ applied[1].post = InitialResult
          /\ state0 = InitialResult
          /\ \A k \in DOMAIN applied : k > 1 => applied[k].action.type # INIT
    /\ JustConstructed =>
          /\ Len(applied) = 1
          /\ currentState = InitialResult
          /\ ~isDispatching
          /\ arrays[currentListeners] = <<>>
          /\ arrays[nextListeners] = <<>>
          /\ result.op = "getState" =>
                (result.status = "ok" /\ result.value = InitialResult)

\* getState on a fresh engine built by calc from the initial state 2
C12_Witness ==
    /\ JustConstructed
    /\ pc = "ready"
    /\ args.reducer = "calc"
    /\ args.preloadedState = ValueArg(2)
    /\ result.op = "getState"
    /\ result.value = 2

\* the events of dispatch call number c, oldest first
EventsOf(c) == SelectSeq(trace, LAMBDA e : e.call = c)
\* the stages in the order the chain gives them an action: the handlers of
\* the listed middlewares, first to last, then store.dispatch
ChainOrder ==
    [j \in 1..(Len(args.middlewares) + 1) |->
        IF j <= Len(args.middlewares) THEN j ELSE 0]
AllCallNext ==
    \A i \in DOMAIN args.middlewares : args.middlewares[i] \in {"forward", "again"}
\* the most recent dispatch call made by the caller of the engine
LastTopCall ==
    LET tops == {j \in DOMAIN trace : trace[j].top}
    IN  IF tops = {} THEN 0
        ELSE trace[CHOOSE j \in tops : \A m \in tops : m <= j].call
\* the caller's dispatch call has returned a value
Completed == Ready /\ result.op = "dispatch" /\ result.status = "ok"

FilterPositions ==
    {i \in DOMAIN args.middlewares : args.middlewares[i] = "filter"}
\* the event of a handler that returns without calling next
Stopped(e) == e.who \in FilterPositions /\ e.action.type = "dbl"
LastEvent(c) == EventsOf(c)[Len(EventsOf(c))]

\* C14: an action that a handler stops is given to no stage further in
\* and not to store.dispatch: the stopping handler is the last stage of
\* its dispatch call, and an action of the stopped type is never seen
\* behind a filter; when the call returns to the caller of the engine its
\* result is the value the stopping handler returned, and the state and
\* the number of completed transitions are those the handler was called
\* with, so no listener has been notified.
C14_ShortCircuit ==
    pc = "ready" =>
        /\ \A j \in DOMAIN trace : \A i \in FilterPositions :
              trace[j].action.type = "dbl" =>
                  (trace[j].who # 0 /\ trace[j].who <= i)
        /\ \A c \in 1..ncalls : \A j \in DOMAIN EventsOf(c) :
              Stopped(EventsOf(c)[j]) => j = Len(EventsOf(c))
        /\ (/\ Ready
            /\ result.op = "dispatch"
            /\ LastTopCall > 0
            /\ EventsOf(LastTopCall) # <<>>
            /\ Stopped(LastEvent(LastTopCall))) =>
              /\ result = Returned("dispatch",
                                   HandlerValue(LastEvent(LastTopCall).who),
                                   LastEvent(LastTopCall).action)
              /\ currentState = LastEvent(LastTopCall).state
              /\ Len(applied) = LastEvent(LastTopCall).n

\* the second of two middlewares stopped an action after another one had
\* gone through, with a listener registered
C14_Witness ==
    /\ Ready
    /\ args.middlewares = <<"forward", "filter">>
    /\ result = Returned("dispatch", HandlerValue(2), PlainAction("dbl"))
    /\ Len(subs) = 1
    /\ Len(applied) = 2
    /\ currentState = 1

\* applyMiddleware has the base engine and has not yet assigned the
\* composed dispatch
Assembling == pc \in {"enhance", "map"}
\* a listed middleware calls api.dispatch before the chain is assembled
Eager ==
    \E i \in DOMAIN args.middlewares : args.middlewares[i] \in {"early", "hasty"}
\* the base engine is as createStore returned it
Untouched ==
    /\ stack = <<>>
    /\ trace = <<>>
    /\ nd = 0
    /\ Len(applied) = 1
    /\ currentState = state0
    /\ ~isDispatching

\* C15: until the composed dispatch is assigned, a call of api.dispatch,
\* by a middleware that is given the api or by one that is given next,
\* raises the assembly error: it is given to no stage and not to
\* store.dispatch, and the base engine stays as it was returned.
C15_DispatchWhileConstructing ==
    /\ Assembling => (Untouched /\ calls = <<>>)
    /\ Eager =>
          /\ pc # "ready"
          /\ ncalls > 0 => (result.status = "AssemblyError" /\ pc = "failed")
    /\ result.status = "AssemblyError" =>
          /\ result.op = "dispatch"
          /\ pc = "failed"
          /\ Eager
          /\ Untouched

\* the second of two middlewares dispatched when it was given next
C15_Witness ==
    /\ result.status = "AssemblyError"
    /\ args.middlewares = <<"forward", "hasty">>
    /\ chain = <<1, 2>>
    /\ ncalls = 1
    /\ state0 = 0

\* the dispatch calls made by handlers through the api
ApiCalls == {c \in 1..ncalls : EventsOf(c) # <<>> /\ ~EventsOf(c)[1].top}

\* C16: once the engine is returned, the action a handler dispatches
\* through the api starts at the handler of the first middleware, whatever
\* the position of the handler that dispatched it, and goes from stage to
\* stage in the order of the chain; when the calls have returned it has
\* been given to every handler and, last, to store.dispatch.
C16_ApiDispatchEntersChain ==
    pc = "ready" =>
        \A c \in ApiCalls :
            /\ Len(EventsOf(c)) <= Len(ChainOrder)
            /\ \A j \in DOMAIN EventsOf(c) :
                  /\ EventsOf(c)[j].who = ChainOrder[j]
                  /\ EventsOf(c)[j].action = PlainAction("inc")
            /\ Completed => Len(EventsOf(c)) = Len(ChainOrder)

\* the handler of the second middleware dispatched through the api, and
\* its action went through both handlers to store.dispatch
C16_Witness ==
    /\ Completed
    /\ args.middlewares = <<"forward", "again">>
    /\ ApiCalls = {2}
    /\ Len(EventsOf(2)) = 3
    /\ EventsOf(2)[1].who = 1
    /\ Len(applied) = 3
    /\ currentState = 1

\* the registry when every subscription is active, in order of subscription
AllSubscribed == [h \in DOMAIN subs |-> [fn |-> subs[h].fn, reg |-> h]]

\* C17: the engine built by applyMiddleware has the getState, subscribe,
\* replaceReducer and observable of the base engine, and the composed
\* function as its dispatch; they act on the one state, registry and flag:
\* a dispatch that store.dispatch runs was given to it through the chain,
\* its transition is the state getState returns, the listeners subscribed
\* through the engine are its snapshot and have all been invoked when it
\* returns, and the flag is set exactly while its reducer runs.
C17_OnlyDispatchDiffers ==
    pc = "ready" =>
        /\ engine.getState = store.getState
        /\ engine.subscribe = store.subscribe
        /\ engine.replaceReducer = store.replaceReducer
        /\ engine.observable = store.observable
        /\ engine.dispatch = IF Enhanced THEN assemble(chain) ELSE store.dispatch
        /\ currentState = applied[Len(applied)].post
        /\ (result.op = "getState" /\ stack = <<>>) =>
              (result.status = "ok" /\ result.value = applied[Len(applied)].post)
        /\ isDispatching <=> (stack # <<>> /\ Top.pc = "reduce")
        /\ \A k \in InFlight :
              /\ stack[k].via = "dispatch" =>
                    /\ trace # <<>>
                    /\ trace[Len(trace)].who = 0
                    /\ trace[Len(trace)].action = stack[k].action
                    /\ \A i \in DOMAIN args.middlewares :
                          \E m \in DOMAIN calls :
                              /\ calls[m].mw = i
                              /\ calls[m].pc = "next"
                              /\ calls[m].call = trace[Len(trace)].call
              /\ stack[k].snap = AllSubscribed
              /\ AtReturn(k) => stack[k].called = AllSubscribed

\* a dispatch given to the engine went through two handlers into
\* store.dispatch, which changed the state and invoked the listener that
\* was subscribed through the engine
C17_Witness ==
    /\ pc = "ready"
    /\ Len(args.middlewares) = 2
    /\ Len(calls) = 2
    /\ Len(stack) = 1
    /\ AtReturn(1)
    /\ Len(stack[1].called) = 1
    /\ currentState = 1
    /\ state0 = 0

\* C18: replaceReducer(N) with a callable N, called by the caller of the
\* engine, makes N the active reducer in the step of the call and
\* dispatches the REPLACE action with it: the state becomes
\* N(previous state, REPLACE), the listeners registered are all invoked
\* once before the call returns, and every later transition is made by N
\* until the next replacement; with an N that is not callable the call
\* raises and changes nothing but its outcome.
C18_ReplaceReducer ==
    /\ [](\A k \in InFlight :
            /\ stack[k].reducer = currentReducer
            /\ stack[k].via = "replaceReducer" =>
                  /\ stack[k].action = PlainAction(REPLACE)
                  /\ stack[k].snap = AllSubscribed
                  /\ Notifying(k) =>
                        currentState = ReducerResult(currentReducer, stack[k].pre,
                                                     PlainAction(REPLACE))
                  /\ AtReturn(k) => stack[k].called = AllSubscribed)
    /\ [](\A j \in DOMAIN applied : j > 1 =>
            IF applied[j].action.type = REPLACE
            THEN /\ applied[j].reducer # applied[j - 1].reducer
                 /\ applied[j].post = ReducerResult(applied[j].reducer,
                                         applied[j - 1].post, PlainAction(REPLACE))
            ELSE applied[j].reducer = applied[j - 1].reducer)
    /\ []((Constructed /\ applied # <<>>) =>
            \/ currentReducer = applied[Len(applied)].reducer
            \/ stack # <<>> /\ Top.via = "replaceReducer" /\ Top.pc = "reduce")
    /\ [][(pc = "ready" /\ stack = <<>> /\ stack' # <<>>
             /\ stack'[1].via = "replaceReducer") =>
              /\ currentReducer' # currentReducer
              /\ currentReducer' \in Reducers
              /\ stack'[1].pre = currentState]_vars
    /\ [][(result'.op = "replaceReducer" /\ result'.status = "ConfigError") =>
              UNCHANGED <<currentReducer, currentState, currentListeners,
                          nextListeners, isDispatching, arrays, subs, stack,
                          nd, applied>>]_vars

\* count was replaced by calc, and the next dispatch doubled the state
C18_Witness ==
    /\ Ready
    /\ args.reducer = "count"
    /\ currentReducer = "calc"
    /\ Len(applied) = 3
    /\ applied[2].action = PlainAction(REPLACE)
    /\ applied[3].action = PlainAction("dbl")
    /\ currentState = 4
    /\ Len(subs) = 1

\* the second argument is a function and there is no third one
SecondIsEnhancer ==
    typeof(args.preloadedState) = "function" /\ typeof(args.enhancer) = "undefined"
GivenEnhancer == IF SecondIsEnhancer THEN args.preloadedState ELSE args.enhancer
GivenState == IF SecondIsEnhancer THEN Undefined ELSE args.preloadedState.value
\* no variable of the base path has been initialised, no dispatch was made
NeverBuilt ==
    /\ nd = -1
    /\ applied = <<>>
    /\ stack = <<>>
    /\ currentReducer = NotAFunction
    /\ currentListeners = 0
ConfigFailure ==
    pc = "failed" /\ result = Raised("createStore", "ConfigError", NoAction)

\* C19: once createStore has looked at its arguments, with the enhancer
\* being the third argument, or the second one when that is a function and
\* there is no third: an enhancer that is not callable has raised a
\* configuration error; an enhancer that builds its own engine has been
\* given control and the base path has not run, not even its check of the
\* reducer; applyMiddleware has called the constructor with the reducer and
\* the initial state (undefined when the second argument was the
\* enhancer); without enhancer the base path runs; and a reducer that is
\* not callable raises a configuration error when it reaches the base path.
\* A construction that raised has built no engine.
C19_ArgumentResolution ==
    pc # "args" =>
        /\ typeof(GivenEnhancer) = "number" => (ConfigFailure /\ NeverBuilt)
        /\ (typeof(GivenEnhancer) = "function" /\ GivenEnhancer.fn = "foreign") =>
              (pc = "foreign" /\ NeverBuilt /\ result.status = "ok")
        /\ (typeof(GivenEnhancer) = "undefined"
              \/ (typeof(GivenEnhancer) = "function"
                    /\ GivenEnhancer.fn = "applyMiddleware")) =>
              IF args.reducer = NotAFunction
              THEN NeverBuilt /\ (pc = "base" \/ ConfigFailure)
              ELSE /\ pc \notin {"foreign"}
                   /\ pc = "failed" => (Eager /\ result.status = "AssemblyError")
                   /\ pc \in {"enhance", "map"} => typeof(GivenEnhancer) = "function"
                   /\ pc \notin {"base", "failed"} => currentReducer \in Reducers
                   /\ Constructed =>
                         /\ applied[1].reducer = args.reducer
                         /\ state0 = ReducerResult(args.reducer, GivenState,
                                                    PlainAction(INIT))
                   /\ (pc = "ready" /\ typeof(GivenEnhancer) = "undefined") =>
                         (engine = store /\ chain = <<>>)

\* a function in second position took control of the construction, and
\* the reducer that is not callable was never checked
C19_Witness ==
    /\ pc = "foreign"
    /\ args.preloadedState = FunctionArg("foreign")
    /\ args.enhancer = UndefinedArg
    /\ args.reducer = NotAFunction


\* the registrations that the next dispatch will notify
Registry == arrays[nextListeners]
CountOf(seq, l) == Cardinality({j \in DOMAIN seq : seq[j].fn = l})
RemoveAt(seq, j) == SubSeq(seq, 1, j - 1) \o SubSeq(seq, j + 1, Len(seq))
UnsubscribeCall(h) == [call |-> "unsubscribe", who |-> h]
CalledBefore(h) == \E k \in DOMAIN trace : trace[k] = UnsubscribeCall(h)

\* C20: outside a reducer, the first call of the unsubscribe closure of a
\* subscription removes exactly one registration of its callback and
\* leaves every other registration where it was; every further call of
\* that closure returns without changing the registry, the arrays or any
\* subscription, even when the same callback is registered again by then.
\* So the registry always holds each callback once per subscription that
\* has not been ended.
C20_UnsubscribeIdempotent ==
    /\ [](\A l \in Listeners :
            CountOf(Registry, l) =
              Cardinality({h \in DOMAIN subs :
                             subs[h].fn = l /\ subs[h].isSubscribed}))
    /\ [][\A h \in DOMAIN subs :
            trace' = Append(trace, UnsubscribeCall(h)) =>
              /\ ~isDispatching
              /\ result' = Returned("unsubscribe", h, NoAction)
              /\ IF CalledBefore(h)
                 THEN /\ arrays'[nextListeners'] = Registry
                      /\ UNCHANGED <<subs, arrays, nextListeners,
                                     currentListeners>>
                 ELSE /\ subs[h].isSubscribed
                      /\ subs' = [subs EXCEPT ![h].isSubscribed = FALSE,
                                              ![h].diedIn = Innermost]
                      /\ \E j \in DOMAIN Registry :
                            /\ Registry[j].fn = subs[h].fn
                            /\ arrays'[nextListeners'] = RemoveAt(Registry, j)
                      /\ UNCHANGED currentListeners
                      /\ arrays'[currentListeners] = arrays[currentListeners]
          ]_vars

\* the closure of an ended subscription is called again after its callback
\* has been subscribed anew, and the new registration is still there
C20_Witness ==
    \E h, g \in DOMAIN subs : \E i, j \in DOMAIN trace :
        /\ h # g
        /\ subs[g].fn = subs[h].fn
        /\ i < j /\ j < Len(trace)
        /\ trace[i] = UnsubscribeCall(h)
        /\ trace[j] = [call |-> "subscribe", who |-> g]
        /\ trace[Len(trace)] = UnsubscribeCall(h)
        /\ result = Returned("unsubscribe", h, NoAction)
        /\ subs[g].isSubscribed
        /\ CountOf(Registry, subs[g].fn) = 1


AttemptOf(h, busy) == [call |-> "unsubscribe", who |-> h, busy |-> busy]

\* C21: the unsubscribe closure of an active subscription, called while a
\* reducer runs, raises the reentrancy error and changes neither the
\* arrays nor any subscription; called while no reducer runs it ends the
\* subscription and removes one registration of its callback.  So a
\* subscription is active exactly as long as its closure was never called
\* outside a reducer, however often it was called inside one, and the
\* registry holds the callbacks of the active subscriptions.
C21_UnsubscribeWhileDispatching ==
    /\ [](\A h \in DOMAIN subs :
            subs[h].isSubscribed <=>
              ~\E k \in DOMAIN trace : trace[k] = AttemptOf(h, FALSE))
    /\ [](\A l \in Listeners :
            CountOf(Registry, l) =
              Cardinality({h \in DOMAIN subs :
                             subs[h].fn = l /\ subs[h].isSubscribed}))
    /\ [][\A h \in DOMAIN subs :
            (subs[h].isSubscribed /\ Len(trace') = Len(trace) + 1
               /\ trace'[Len(trace')].who = h) =>
              IF isDispatching
              THEN /\ result' = Raised("unsubscribe", "ReentrancyError", NoAction)
                   /\ UNCHANGED <<subs, arrays, nextListeners, currentListeners,
                                  currentState, isDispatching, stack>>
              ELSE /\ result' = Returned("unsubscribe", h, NoAction)
                   /\ ~subs'[h].isSubscribed
                   /\ \E j \in DOMAIN Registry :
                         /\ Registry[j].fn = subs[h].fn
                         /\ arrays'[nextListeners'] = RemoveAt(Registry, j)
          ]_vars

\* a closure that was refused inside a reducer has been called again
\* outside, and its listener is gone
C21_Witness ==
    \E h \in DOMAIN subs : \E i \in DOMAIN trace :
        /\ i < Len(trace)
        /\ trace[i] = AttemptOf(h, TRUE)
        /\ trace[Len(trace)] = AttemptOf(h, FALSE)
        /\ \A k \in DOMAIN trace : k < Len(trace) => trace[k] # AttemptOf(h, FALSE)
        /\ result = Returned("unsubscribe", h, NoAction)
        /\ ~subs[h].isSubscribed
        /\ CountOf(Registry, subs[h].fn) = 0
        /\ ~isDispatching


\* the state after n transitions
StateAt(n) == IF n = 0 THEN state0 ELSE applied[n].post
NextEvents(h, id) ==
    {k \in DOMAIN trace : /\ trace[k].call = "next"
                          /\ trace[k].who = h
                          /\ trace[k].id = id}
Observing == {k \in DOMAIN trace : trace[k].call = "observe" /\ trace[k].next}
\* dispatch call d started after the observer was attached and before its
\* unsubscribe closure was called
Attached(h, d) ==
    /\ \E k \in Observing : trace[k].who = h /\ trace[k].id < d
    /\ ~\E k \in DOMAIN trace :
          trace[k].call = "unsubscribe" /\ trace[k].who = h /\ trace[k].id < d
\* subscribing delivered the state of that moment, once
DeliveredAtOnce ==
    \A k \in Observing :
        /\ k > 1
        /\ trace[k - 1] = [trace[k] EXCEPT !.call = "next", !.id = 0]
        /\ trace[k].state = StateAt(trace[k].n)
        /\ NextEvents(trace[k].who, 0) = {k - 1}
\* what a dispatch delivers is the state after its own transition
OwnPostState ==
    \A k \in DOMAIN trace : (trace[k].call = "next" /\ trace[k].id > 0) =>
        \E m \in DOMAIN applied :
            applied[m].id = trace[k].id /\ trace[k].state = applied[m].post
\* what a dispatch delivers is the state after the latest transition
LatestState ==
    \A k \in DOMAIN trace : (trace[k].call = "next" /\ trace[k].id > 0) =>
        /\ trace[k].state = StateAt(trace[k].n)
        /\ \E m \in 1..trace[k].n : applied[m].id = trace[k].id
\* a dispatch call that returns has delivered once to each observer it
\* found attached, and not to the others
OncePerDispatch ==
    [][(stack # <<>> /\ stack' = Pop(stack) /\ result'.status = "ok") =>
          \A h \in DOMAIN subs : subs[h].fn \in ObserveStates =>
              Cardinality(NextEvents(h, Top.id)) =
                  IF Attached(h, Top.id) THEN 1 ELSE 0]_vars

Reduced(r) == SelectSeq(trace, LAMBDA e : ~Raises(r, Undefined, e.action))

\* C23: every dispatch call made by a timer that fires while no other call
\* is running is accepted: none ends in a reentrancy error, the calls get
\* the numbers of the order they were made in and never nest; the
\* transitions are made in that order, and between two calls the state is
\* the left fold of the reducer over the actions in it, from the state of
\* construction (the actions on which the reducer raises left out).
C23_OutOfBandDispatches ==
    /\ result.status # "ReentrancyError"
    /\ nd = Len(trace)
    /\ Len(stack) <= 1
    /\ \A j \in DOMAIN applied :
          /\ applied[j].id \in DOMAIN trace
          /\ applied[j].action = trace[applied[j].id].action
          /\ \A k \in DOMAIN applied : k < j => applied[k].id < applied[j].id
    /\ stack = <<>> =>
          /\ ~isDispatching
          /\ Len(applied) = Len(Reduced(currentReducer))
          /\ currentState = FoldLeft(currentReducer, Reduced(currentReducer), state0)

\* the second timer fired first and incremented, then the first one
\* doubled: the state is that of this order, not of the other one
C23_Witness ==
    /\ stack = <<>>
    /\ currentReducer = "calc"
    /\ Len(trace) = 2
    /\ trace[1].who = 2 /\ trace[1].action.type = "inc"
    /\ trace[2].who = 1 /\ trace[2].action.type = "dbl"
    /\ currentState = 2 * (state0 + 1)
    /\ currentState # 2 * state0 + 1
    /\ result = Returned("dispatch", Undefined, PlainAction("dbl"))


\* frame k was entered from the callback of a listener of frame k - 1
Nested(k) == k > 1 /\ k \in InFlight

\* C24: the flag is set only while a reducer runs, so a dispatch call made
\* by a listener is accepted like any other call made outside a reducer.
\* The nested call makes its transition and notifies the registry as it
\* was when the call was made: each callback once per subscription that
\* was active then, those made earlier in the outer notification
\* included and those ended earlier in it excluded.  The outer call is
\* suspended in the callback and goes on with its own snapshot, which the
\* nested call did not change; every listener is invoked after some
\* transition and is given the state of the latest one.
C24_NestedDispatch ==
    [](/\ isDispatching <=> (stack # <<>> /\ Top.pc = "reduce")
       /\ result.status # "ReentrancyError"
       /\ \A k \in InFlight :
             /\ Nested(k) =>
                   /\ stack[k - 1].pc = "listener"
                   /\ stack[k - 1].id < stack[k].id
                   /\ Len(applied) > stack[k - 1].n0
             /\ \A l \in Listeners :
                   CountOf(stack[k].snap, l) =
                     Cardinality({h \in DOMAIN subs :
                         subs[h].fn = l /\ ActiveAtStart(h, stack[k])})
             /\ Notifying(k) =>
                   /\ iterated(stack[k]) = stack[k].snap
                   /\ applied[stack[k].n0 + 1].id = stack[k].id
                   /\ stack[k].called =
                         SubSeq(stack[k].snap, 1, Len(stack[k].called))
                   /\ Len(stack[k].called) =
                         stack[k].i + (IF stack[k].pc = "listener" THEN 1 ELSE 0)
                   /\ \A j \in DOMAIN stack[k].seen :
                         /\ stack[k].seen[j].n > stack[k].n0
                         /\ stack[k].seen[j].state =
                               applied[stack[k].seen[j].n].post)

\* a listener subscribed another one and then dispatched: the nested call
\* has notified both, the outer call has only the first in its snapshot
C24_Witness ==
    /\ Len(stack) = 2
    /\ stack[1].pc = "listener"
    /\ Len(stack[1].snap) = 1
    /\ AtReturn(2)
    /\ Len(stack[2].called) = 2
    /\ subs[stack[2].called[2].reg].born = stack[1].id
    /\ currentState = stack[2].post
    /\ currentState # stack[1].post
    /\ ~isDispatching


CallbacksOf(seq) == [j \in DOMAIN seq |-> seq[j].fn]
\* the subscriptions that have not been ended, in the order they were made
ActiveSubs == SelectSeq(subs, LAMBDA x : x.isSubscribed)
ActiveCount(l) ==
    Cardinality({h \in DOMAIN subs : subs[h].fn = l /\ subs[h].isSubscribed})

\* C25, as stated: the live list holds the callbacks of the active
\* subscriptions, in the order these subscriptions were made.
C25_ListIsActiveSubscriptions ==
    CallbacksOf(Registry) = CallbacksOf(ActiveSubs)

\* C25, amended: the live list holds each callback once per active
\* subscription of it, its elements in the order they were pushed; a
\* dispatch invokes every element of the list it started with, so a
\* callback subscribed k times is invoked k times; a call that ends a
\* subscription removes one occurrence of its callback, the first one in
\* the list, and no element of another callback.  With a callback
\* subscribed more than once the occurrence removed need not be the one
\* the ended subscription had pushed, so the list need not be in the
\* order of the active subscriptions.
C25_ListHoldsActiveCallbacks ==
    /\ [](\A l \in Listeners : CountOf(Registry, l) = ActiveCount(l))
    /\ [](\A j, m \in DOMAIN Registry :
            j < m => Registry[j].reg < Registry[m].reg)
    /\ [](\A k \in InFlight : AtReturn(k) =>
            /\ stack[k].called = stack[k].snap
            /\ stack[k].called = Registry)
    /\ [][\A h \in DOMAIN subs :
            (subs[h].isSubscribed /\ ~subs'[h].isSubscribed) =>
                \E j \in DOMAIN Registry :
                    /\ Registry[j].fn = subs[h].fn
                    /\ \A m \in 1..(j - 1) : Registry[m].fn # subs[h].fn
                    /\ arrays'[nextListeners'] = RemoveAt(Registry, j)
          ]_vars

\* of three subscriptions the third, of the first one's callback, was
\* ended: the list and a dispatch's invocations have the second callback
\* before the first
C25_Witness ==
    /\ Len(subs) = 3
    /\ subs[1].fn = subs[3].fn /\ subs[1].fn # subs[2].fn
    /\ subs[1].isSubscribed /\ subs[2].isSubscribed /\ ~subs[3].isSubscribed
    /\ CallbacksOf(Registry) = <<subs[2].fn, subs[1].fn>>
    /\ Len(stack) = 1
    /\ AtReturn(1)
    /\ CallbacksOf(stack[1].called) = <<subs[2].fn, subs[1].fn>>


Internals == {PlainAction(t) : t \in ActionTypes}
\* a middleware that stops every action stands first in the chain
Blocked == args.middlewares # <<>> /\ args.middlewares[1] = "block"

\* C26: in an engine built by applyMiddleware no stage of the chain is
\* ever called with the INIT action of construction or the REPLACE action
\* of replaceReducer, and no handler holds one: construction has made the
\* INIT transition before the chain exists, and a replaceReducer call
\* with a callable argument is at once in the base dispatch, in front of
\* the new reducer, whatever the middlewares are.  Behind a middleware
\* that stops every action these two are the only actions that reach the
\* reducer.
C26_InternalActionsBypassChain ==
    /\ [](/\ \A k \in DOMAIN trace : trace[k].action \notin Internals
          /\ \A c \in DOMAIN calls : calls[c].action \notin Internals
          /\ Constructed =>
                /\ applied # <<>>
                /\ applied[1].action = PlainAction(INIT)
                /\ applied[1].id = 0
                /\ state0 = ReducerResult(args.reducer, Undefined,
                                           PlainAction(INIT))
          /\ Blocked =>
                \A j \in DOMAIN applied : applied[j].action \in Internals)
    /\ [][(pc = "ready" /\ currentReducer' # currentReducer) =>
            /\ calls' = <<>> /\ trace' = trace
            /\ stack' = <<Top'>>
            /\ Top'.action = PlainAction(REPLACE)
            /\ Top'.pc = "reduce"
            /\ Top'.reducer = currentReducer'
            /\ isDispatching'
          ]_vars

\* behind a middleware that stops every action the reducer was replaced:
\* the actions of the caller were stopped, INIT and REPLACE made their
\* transitions
C26_Witness ==
    /\ Blocked
    /\ pc = "ready" /\ stack = <<>> /\ calls = <<>>
    /\ currentReducer = "calc"
    /\ Len(applied) = 2
    /\ applied[1].action = PlainAction(INIT)
    /\ applied[2].action = PlainAction(REPLACE)
    /\ applied[2].reducer = "calc"
    /\ trace # <<>> /\ trace[1].who = 1 /\ trace[1].action.type = "inc"
    /\ result = Returned("dispatch", HandlerValue(1), PlainAction("inc"))


\* C27: a replaceReducer call made by a running reducer with a callable
\* argument ends in the reentrancy error of dispatch, and by then the
\* argument is the active reducer: no call is entered, nothing else
\* changes, and the REPLACE action never makes a transition.  The
\* transition under way is completed by the reducer that was called, and
\* every dispatch call entered afterwards runs the reducer installed last.
C27_ReplaceInsideReducer ==
    /\ [](\A j \in DOMAIN applied : applied[j].action # PlainAction(REPLACE))
    /\ [](\A k \in InFlight : stack[k].action # PlainAction(REPLACE))
    /\ [][(isDispatching /\ result'.op = "replaceReducer") =>
            /\ result' = Raised("replaceReducer", "ReentrancyError", NoAction)
            /\ currentReducer' \in Reducers \ {currentReducer}
            /\ UNCHANGED <<stack, applied, currentState, isDispatching, nd,
                           currentListeners, nextListeners, arrays, subs>>
          ]_vars
    /\ [][Len(stack') > Len(stack) =>
            /\ Top'.reducer = currentReducer
            /\ Top'.pc = "reduce"
            /\ UNCHANGED currentReducer
          ]_vars
    /\ [][Len(applied') > Len(applied) =>
            /\ applied'[Len(applied')].reducer = Top.reducer
            /\ currentState' = ReducerResult(Top.reducer, currentState, Top.action)
          ]_vars

\* a dispatch made after the failed call was reduced by the reducer
\* installed by it, although no REPLACE transition was ever made
C27_Witness ==
    /\ stack = <<>>
    /\ args.reducer = "count"
    /\ currentReducer = "calc"
    /\ Len(applied) = 2
    /\ applied[1].reducer = "count" /\ applied[1].action = PlainAction("inc")
    /\ applied[2].reducer = "calc" /\ applied[2].action = PlainAction("dbl")
    /\ currentState = 2 * (state0 + 1)


====
